---- MODULE Spec2Model ----
(***************************************************************************)
(* Model of record.py (jeff-hykin/gps_test): the record loop that reads    *)
(* NMEA sentences from a serial GPS, assembles fixes from RMC sentences    *)
(* supplemented by the last GGA sentence, and rewrites the YAML track file *)
(* after every fix; and of load_points of map.py / visualize.py, the       *)
(* readers of that file.                                                   *)
(*                                                                         *)
(* Encoding.  A Python optional value is a set: {} is None, {v} is v.      *)
(* Floats of speed, course and altitude are integers in units of 1e-4;     *)
(* latitude and longitude are integers in units of 1e-8 degree (the        *)
(* resolution of round(x, 8)).  A line read from the serial device is a    *)
(* record of its NMEA field texts.  The track file is a record of its kind *)
(* of content and, for a YAML list, the points it holds.                   *)
(***************************************************************************)
EXTENDS Integers, Sequences, FiniteSets, TLC

\* Number of serial reads (ser.readline calls) explored in one run.
MaxLines == 3
\* The nonzero value tried for --count (0, the default, is always tried).
CountLimit == 2

None == {}
Some(v) == {v}
Val(o) == CHOOSE v \in o : TRUE

(***************************************************************************)
(* pynmea2's view of a sentence, as record.py uses it.                     *)
(***************************************************************************)

\* A field with a float converter (altitude, spd_over_grnd, true_course):
\* None when the text is empty, the float when it converts, and the raw text
\* when the conversion fails.
FloatValue(text) ==
    CASE text = "0.0" -> Some(0)
      [] text = "000.0" -> Some(0)
      [] text = "12.3" -> Some(123000)
      [] text = "50.0" -> Some(500000)
      [] text = "022.4" -> Some(224000)
      [] text = "5.1234" -> Some(51234)
      [] text = "5.1235" -> Some(51235)
      [] text = "2.675" -> Some(26750)
      [] text = "084.4" -> Some(844000)
      [] text = "084.456" -> Some(844560)
      [] OTHER -> None

\* float(text) is the binary double nearest to the decimal: the sign of
\* (double - decimal), which decides how round() breaks a decimal tie.
FloatBias(text) ==
    CASE text \in {"0.0", "000.0", "50.0"} -> 0
      [] text \in {"12.3", "5.1234", "084.4", "084.456"} -> 1
      [] text \in {"022.4", "5.1235", "2.675"} -> 0 - 1
      [] OTHER -> 0

FloatField(text) ==
    IF text = "" THEN [kind |-> "none", v |-> 0, bias |-> 0]
    ELSE IF FloatValue(text) # None
    THEN [kind |-> "float", v |-> Val(FloatValue(text)), bias |-> FloatBias(text)]
    ELSE [kind |-> "str", v |-> 0, bias |-> 0]

\* Python truth value of what a float-converted field returns: None and 0.0
\* are false, a nonzero float and a nonempty raw text are true.
Truthy(x) == (x.kind = "float" /\ x.v # 0) \/ x.kind = "str"

\* float(x) / int(x) on a raw text that is no number raises ValueError.
Raises(x) == x.kind = "str"

\* num_sats has no converter: the attribute is the field's text.
IntValue(text) ==
    CASE text = "00" -> Some(0)
      [] text = "05" -> Some(5)
      [] text = "07" -> Some(7)
      [] OTHER -> None

\* round(x, ndigits) of a non-negative float x, with unit = 10^(4 - ndigits)
\* in units of 1e-4: round() rounds the double exactly, so the nearest
\* multiple of unit, and at a decimal tie the side the double lies on (half
\* to even when the double is the decimal itself).
RoundTo(x, unit) ==
    LET q == x.v \div unit
        r == 2 * (x.v % unit)
        up == \/ r > unit
              \/ r = unit /\ x.bias > 0
              \/ r = unit /\ x.bias = 0 /\ q % 2 = 1
    IN  IF up THEN (q + 1) * unit ELSE q * unit

\* round(x, 3) and round(x, 2).
Round3(x) == RoundTo(x, 10)
Round2(x) == RoundTo(x, 100)

\* dm_to_sd: "dddmm.mmm" to decimal degrees, here in units of 1e-8 degree.
\* Empty text is 0.0; text that is not DDDMM.MMM raises ValueError (None here).
DmParts(text) ==
    CASE text = "0000.000" -> Some([deg |-> 0, mmin |-> 0])
      [] text = "00000.000" -> Some([deg |-> 0, mmin |-> 0])
      [] text = "1207.038" -> Some([deg |-> 12, mmin |-> 7038])
      [] text = "01131.000" -> Some([deg |-> 11, mmin |-> 31000])
      [] OTHER -> None

DmValid(text) == text = "" \/ DmParts(text) # None

dm_to_sd(text) ==
    IF text = "" THEN 0
    ELSE LET p == Val(DmParts(text))
         IN  p.deg * 100000000 + (p.mmin * 10000 + 3) \div 6

\* LatLonFix.latitude / .longitude: signed by the direction field, 0.0 when
\* the direction is neither of the two letters.
Signed(text, dir, pos, neg) ==
    IF dir = pos THEN dm_to_sd(text)
    ELSE IF dir = neg THEN 0 - dm_to_sd(text)
    ELSE 0

Latitude(m) == Signed(m.lat, m.lat_dir, "N", "S")
Longitude(m) == Signed(m.lon, m.lon_dir, "E", "W")

\* DatetimeFix: the datestamp and timestamp converters.  None for an empty
\* field and also for a text that does not convert (the attribute is then
\* the raw text, on which combine / replace raise).
\* datestamp is strptime(text, "%d%m%y"), which takes one digit for the day
\* and the month where two do not fit: the four digits "2303" are day 2,
\* month 3, year 03.
DateIso(text) ==
    CASE text = "230394" -> Some("1994-03-23")
      [] text = "2303" -> Some("2003-03-02")
      [] OTHER -> None
\* timestamp takes "hhmmss" apart by position; int("") raises on a text
\* that is too short.
TimeIso(text) == IF text = "123519" THEN Some("12:35:19") ELSE None

(***************************************************************************)
(* The lines the serial device can deliver.                                *)
(***************************************************************************)
Blank(t) ==
    [typ |-> t, lat |-> "", lat_dir |-> "", lon |-> "", lon_dir |-> "",
     altitude |-> "", num_sats |-> "", status |-> "",
     spd_over_grnd |-> "", true_course |-> "", datestamp |-> "", timestamp |-> ""]

\* No sentence parsed yet.
NoMsg == Blank("NONE")

GoodNE == <<"1207.038", "N", "01131.000", "E">>
GoodSW == <<"1207.038", "S", "01131.000", "W">>
Equator == <<"0000.000", "N", "01131.000", "E">>
ZeroPos == <<"0000.000", "N", "00000.000", "E">>
NoPos == <<"", "", "", "">>
\* A garbled latitude, and a line cut off inside the longitude field.
BadLat == <<"12x7.038", "N", "01131.000", "E">>
TruncLon == <<"1207.038", "N", "011", "">>

WithPos(m, pos) ==
    [m EXCEPT !.lat = pos[1], !.lat_dir = pos[2], !.lon = pos[3], !.lon_dir = pos[4]]

GGALine(pos, alt, sats) ==
    [WithPos(Blank("GGA"), pos) EXCEPT !.altitude = alt, !.num_sats = sats]

RMCLine(status, pos, spd, crs, date, time) ==
    [WithPos(Blank("RMC"), pos) EXCEPT !.status = status, !.spd_over_grnd = spd,
        !.true_course = crs, !.datestamp = date, !.timestamp = time]

\* timeout: an empty read; noise: text not starting with "$"; garbled: a "$"
\* line pynmea2.parse rejects; GSV: a sentence of another type.
SkipLines == {Blank("timeout"), Blank("noise"), Blank("garbled"), Blank("GSV")}

GGALines ==
    { GGALine(GoodNE, "12.3", "07"),
      GGALine(GoodNE, "", ""),
      GGALine(GoodNE, "0.0", "00"),
      GGALine(NoPos, "50.0", "05"),
      GGALine(Equator, "50.0", "05"),
      GGALine(GoodNE, "02x.4", "07"),
      GGALine(GoodNE, "12.3", "xx"),
      GGALine(BadLat, "12.3", "07") }

RMCLines ==
    { RMCLine("A", GoodNE, "022.4", "084.4", "230394", "123519"),
      RMCLine("A", GoodNE, "0.0", "000.0", "230394", "123519"),
      RMCLine("A", GoodSW, "5.1235", "084.456", "", ""),
      RMCLine("A", GoodSW, "5.1234", "2.675", "2303", "123519"),
      RMCLine("A", GoodNE, "", "", "23x394", "123519"),
      RMCLine("A", Equator, "", "", "2303", "1235"),
      RMCLine("V", GoodNE, "022.4", "084.4", "230394", "123519"),
      RMCLine("", GoodNE, "022.4", "084.4", "230394", "123519"),
      RMCLine("V", TruncLon, "", "", "", ""),
      RMCLine("A", NoPos, "", "", "230394", "123519"),
      RMCLine("A", ZeroPos, "022.4", "084.4", "230394", "123519"),
      RMCLine("A", TruncLon, "", "", "", ""),
      RMCLine("A", GoodNE, "02x.4", "084.4", "230394", "123519"),
      RMCLine("A", GoodNE, "022.4", "02x.4", "230394", "123519") }

(***************************************************************************)
(* The Fix Assembler: lines 109-149 of main.                               *)
(***************************************************************************)

\* Line 111, `if msg.latitude and msg.longitude`: the properties raise
\* ValueError on a text that is not DDDMM.MMM; `and` evaluates the longitude
\* only when the latitude is nonzero.
GGAPositionRaises(m) ==
    \/ ~DmValid(m.lat)
    \/ (Latitude(m) # 0 /\ ~DmValid(m.lon))

GGAHasPosition(m) == Latitude(m) # 0 /\ Longitude(m) # 0

\* Line 113: float(msg.altitude) if msg.altitude else None.
AltitudeM(m) ==
    IF Truthy(FloatField(m.altitude)) THEN Some(FloatField(m.altitude).v) ELSE None

\* Line 114: int(msg.num_sats) if msg.num_sats else None.
NumSats(m) == IF m.num_sats # "" THEN IntValue(m.num_sats) ELSE None

\* Lines 113-114 raise ValueError on a field that is no number.
GGAValuesRaise(m) ==
    \/ Raises(FloatField(m.altitude))
    \/ (m.num_sats # "" /\ IntValue(m.num_sats) = None)

\* Lines 112-115: the dict stored in pending_gga.
GGAExtras(m) == [altitude_m |-> AltitudeM(m), num_sats |-> NumSats(m)]

\* The flag test without its comparison to "A": any flag passes.
StatusActiveAnyFlag(m) == m.status # ""

\* Line 122: `not msg.status or msg.status != "A"` is false.
StatusActive(m) == m.status # "" /\ m.status = "A"

\* Lines 126-127 raise ValueError on a latitude or longitude text that is
\* not DDDMM.MMM.
RMCPositionRaises(m) == ~DmValid(m.lat) \/ ~DmValid(m.lon)

\* Line 129.
ZeroZero(m) == Latitude(m) = 0 /\ Longitude(m) = 0

\* Lines 133-137: the sentence's date and time, or the wall clock when
\* combining them raises.
Timestamp(m) ==
    IF DateIso(m.datestamp) # None /\ TimeIso(m.timestamp) # None
    THEN <<Val(DateIso(m.datestamp)), "T", Val(TimeIso(m.timestamp)), "Z">>
    ELSE <<"utcnow", "Z">>

\* Line 143: round(float(msg.spd_over_grnd), 3) if msg.spd_over_grnd else None.
SpeedKnots(m) ==
    IF Truthy(FloatField(m.spd_over_grnd))
    THEN Some(Round3(FloatField(m.spd_over_grnd))) ELSE None

\* Line 144: round(float(msg.true_course), 2) if msg.true_course else None.
CourseDeg(m) ==
    IF Truthy(FloatField(m.true_course))
    THEN Some(Round2(FloatField(m.true_course))) ELSE None

\* Lines 143-144 raise ValueError on a field that is no number.
RMCValuesRaise(m) ==
    Raises(FloatField(m.spd_over_grnd)) \/ Raises(FloatField(m.true_course))

\* Lines 122-144: an RMC sentence that gets as far as a Fix.
RMCBuildsFix(m) ==
    /\ StatusActive(m)
    /\ ~RMCPositionRaises(m)
    /\ ~ZeroZero(m)
    /\ ~RMCValuesRaise(m)

\* Lines 139-145.
BuildPoint(m) ==
    [timestamp |-> Timestamp(m), lat |-> Latitude(m), lon |-> Longitude(m),
     speed_knots |-> SpeedKnots(m), course_deg |-> CourseDeg(m)]

\* Lines 147-148: point.update(pending_gga) when a dict is pending.
MergePending(point, pending) ==
    IF pending # None THEN Val(pending) @@ point ELSE point

\* Line 149: pending_gga = None once merged.
ConsumePending(pending) == None

\* A key of a point: None when the key is missing or holds None.
Field(point, key) == IF key \in DOMAIN point THEN point[key] ELSE None

(***************************************************************************)
(* The Track Store: the track file, load_existing, save_points, and the    *)
(* readers' load_points.                                                   *)
(***************************************************************************)

\* A fix recorded by an earlier run.
OldPoint ==
    [timestamp |-> <<"1994-03-22", "T", "12:35:19", "Z">>, lat |-> 1211730000,
     lon |-> 1151666667, speed_knots |-> Some(10000), course_deg |-> None]

\* kind: absent (no file), empty (zero bytes), garbage (text yaml cannot
\* parse), nonlist (yaml that is a mapping or a scalar), list.  pts: the
\* elements the text holds.
FileOf(kind, pts) == [kind |-> kind, pts |-> pts]

StartFiles ==
    { FileOf("absent", <<>>), FileOf("empty", <<>>), FileOf("garbage", <<>>),
      FileOf("nonlist", <<>>), FileOf("list", <<>>), FileOf("list", <<OldPoint>>) }

\* yaml.safe_load raises yaml.YAMLError on text it cannot parse; load_existing
\* (lines 51-56) and load_points catch FileNotFoundError only.
YamlRaises(f) == f.kind = "garbage"

\* Lines 49-56: data if isinstance(data, list) else []; [] when no file.
load_existing(f) == IF f.kind = "list" THEN f.pts ELSE <<>>

\* map.py 30-38, visualize.py 24-32: what a reader of the file gets.
load_points(f) ==
    IF f.kind = "absent" THEN [res |-> "exit_file_not_found", pts |-> <<>>]
    ELSE IF YamlRaises(f) THEN [res |-> "yaml_error", pts |-> <<>>]
    ELSE IF f.kind # "list" \/ Len(f.pts) = 0 THEN [res |-> "exit_no_points", pts |-> <<>>]
    ELSE [res |-> "ok", pts |-> f.pts]

\* A serial device, and lines 30-46: the first candidate, or RuntimeError
\* (None here) when there is none.
Device == "/dev/cu.usbserial-0001"
find_gps_port(candidates) ==
    IF candidates # <<>> THEN Some(candidates[1]) ELSE None

\* Line 60: open(path, "w") creates or truncates the file.
Truncated == FileOf("empty", <<>>)

\* Line 61: the text yaml.dump has written once the file is closed.
Dumped(pts) == FileOf("list", pts)

\* Line 61, sort_keys=False: a point's keys in the order the dict got them,
\* the GGA extras (point.update, line 148) last.
KeyOrder ==
    <<"timestamp", "lat", "lon", "speed_knots", "course_deg", "altitude_m", "num_sats">>
InPoint(p, key) == key \in DOMAIN p
PointKeys(p) == SelectSeq(KeyOrder, LAMBDA key : InPoint(p, key))

\* The mapping yaml reads from the first n lines ("key: value") of a point.
Written(p, n) == [key \in {PointKeys(p)[i] : i \in 1..n} |-> p[key]]

\* Where the text of a point can be cut inside the line of its n-th key, and
\* what yaml reads there:
\*   dash  "- "                 the element is None (first key only)
\*   key   "- timest", "  la"   first key: the element is a bare string;
\*                              a later key: the text does not parse
\*   none  "lat:"               the key holds None
\*   sign  "lat: -"             the text does not parse (a negative number)
\*   part  "lat: 12.1"          the key holds a shorter number or text; a
\*                              quoted string (the timestamp) does not parse
\*   whole "lat: 12.1173"       the mapping of the first n keys
\* The element read at such a cut: the mapping of the lines before, and in
\* `cut` the key whose line is cut and how it reads (a record field, since a
\* None or a string in the place of a number cannot be compared by TLC).
CutPoint(p, n, how) ==
    Written(p, n - 1) @@ [cut |-> [key |-> PointKeys(p)[n], read |-> how]]

\* A value of one character (the satellite count) has no shorter text.
HasPart(p, key) == ~(key = "num_sats" /\ p[key] # None)

\* A southern latitude or a western longitude is written with a minus sign.
HasSign(p, key) == key \in {"lat", "lon"} /\ p[key] < 0

\* How far yaml.dump has written: k whole points, and of the next one the
\* line of key n up to place `at` (n = 0, "between": nothing of it).
DumpStart == [k |-> 0, n |-> 0, at |-> "between"]

\* The place the next piece of text reaches.
NextCut(pts, c) ==
    LET p == pts[c.k + 1]
        m == Len(PointKeys(p))
        key == PointKeys(p)[c.n]
        lineEnd == IF c.n < m THEN [c EXCEPT !.at = "whole"]
                   ELSE [k |-> c.k + 1, n |-> 0, at |-> "between"]
        value == IF HasPart(p, key) THEN [c EXCEPT !.at = "part"] ELSE lineEnd
    IN  CASE c.at = "between" -> [k |-> c.k, n |-> 1, at |-> "dash"]
          [] c.at = "dash" -> [c EXCEPT !.at = "key"]
          [] c.at = "key" -> [c EXCEPT !.at = "none"]
          [] c.at = "none" -> IF HasSign(p, key) THEN [c EXCEPT !.at = "sign"] ELSE value
          [] c.at = "sign" -> value
          [] c.at = "part" -> lineEnd
          [] c.at = "whole" -> [k |-> c.k, n |-> c.n + 1, at |-> "key"]

\* Line 61: the text of the dump of pts up to place c.  kind is what yaml
\* makes of it, pts the elements it holds.
CutFile(pts, c) ==
    LET head == SubSeq(pts, 1, c.k)
        p == pts[c.k + 1]
    IN  IF c.at = "between" THEN (IF c.k = 0 THEN Truncated ELSE Dumped(head))
        ELSE IF c.at = "whole" THEN Dumped(Append(head, Written(p, c.n)))
        ELSE IF \/ c.at = "key" /\ c.n > 1
                \/ c.at = "sign"
                \/ c.at = "part" /\ PointKeys(p)[c.n] = "timestamp"
        THEN FileOf("garbage", Append(head, CutPoint(p, c.n, c.at)))
        ELSE Dumped(Append(head, CutPoint(p, c.n, c.at)))

\* A GGA sentence with latitude and longitude fields both nonempty, and an
\* RMC sentence with flag 'A' whose latitude and longitude decode and are
\* not both zero: the sentences the history below keeps track of.
ClaimPositionGGA(m) == m.typ = "GGA" /\ m.lat # "" /\ m.lon # ""

ClaimValidRMC(m) ==
    /\ m.typ = "RMC"
    /\ m.status = "A"
    /\ DmValid(m.lat) /\ DmValid(m.lon)
    /\ ~(Latitude(m) = 0 /\ Longitude(m) = 0)

(***************************************************************************)
(* State.                                                                  *)
(***************************************************************************)
VARIABLES
    pc,              \* where main is
    count,           \* args.count
    port,            \* the serial port main resolved, None before
    file,            \* the track file args.output
    dump,            \* how far yaml.dump has written the track
    points,          \* the in-memory track
    ser,             \* the serial handle: unopened, open, closed
    fixes_recorded,
    pending_gga,
    msg,             \* the line of the current iteration
    point,           \* the Fix being appended
    exit,            \* why main ended
    reported,        \* the count printed by the interrupt handler
    nRead,           \* lines read so far
    \* History, for stating properties:
    startFile,       \* the track file at startup
    prev,            \* the in-memory track when the current line was read
    gga,             \* the last GGA sentence read with latitude and longitude
    since            \* valid RMC sentences read since then

vars ==
    <<pc, count, port, dump, file, points, ser, fixes_recorded, pending_gga, msg, point,
      exit, reported, nRead, startFile, prev, gga, since>>

prog == <<count, port, dump, file, points, ser, fixes_recorded, pending_gga, msg, point, reported, nRead>>
hist == <<startFile, prev, gga, since>>

NoPoint == BuildPoint(NoMsg)

Init ==
    /\ pc = "start"
    /\ count \in {0, CountLimit}
    /\ port = None
    /\ dump = DumpStart
    /\ file \in StartFiles
    /\ startFile = file
    /\ points = <<>>
    /\ ser = "unopened"
    /\ fixes_recorded = 0
    /\ pending_gga = None
    /\ msg = NoMsg
    /\ point = NoPoint
    /\ exit = "running"
    /\ reported = None
    /\ nRead = 0
    /\ prev = <<>>
    /\ gga = NoMsg
    /\ since = 0

\* Lines 76-77: args.port, or the first device find_gps_port finds; its
\* RuntimeError, when --port is not given and no device matches, ends main.
ResolvePort ==
    /\ pc = "start"
    /\ \E given \in {None, Some(""), Some(Device)}, candidates \in {<<>>, <<Device>>} :
        LET found == IF given \notin {None, Some("")} THEN given
                     ELSE find_gps_port(candidates)
        IN  IF found = None
            THEN pc' = "done" /\ exit' = "no_port" /\ UNCHANGED port
            ELSE pc' = "load" /\ port' = found /\ UNCHANGED exit
    /\ UNCHANGED <<count, dump, file, points, ser, fixes_recorded, pending_gga, msg, point, reported, nRead>>
    /\ UNCHANGED hist

\* Lines 79-80.  An uncaught YAMLError ends main before the device is opened.
LoadExisting ==
    /\ pc = "load"
    /\ IF YamlRaises(file)
       THEN /\ pc' = "done"
            /\ exit' = "yaml_error"
            /\ UNCHANGED points
       ELSE /\ pc' = "open"
            /\ points' = load_existing(file)
            /\ UNCHANGED exit
    /\ UNCHANGED <<count, port, dump, file, ser, fixes_recorded, pending_gga, msg, point, reported, nRead>>
    /\ UNCHANGED hist

\* Lines 82-83: serial.Serial(...) returns.
OpenSerial ==
    /\ pc = "open"
    /\ ser' = "open"
    /\ pc' = "opened"
    /\ UNCHANGED <<count, port, dump, file, points, fixes_recorded, pending_gga, msg, point, exit, reported, nRead>>
    /\ UNCHANGED hist

\* Lines 84-85: serial.SerialException, sys.exit with a message.
OpenFails ==
    /\ pc = "open"
    /\ pc' = "done"
    /\ exit' = "open_failed"
    /\ UNCHANGED prog
    /\ UNCHANGED hist

\* Lines 87-91: the locals are set, the banner is printed, the try is entered.
EnterLoop ==
    /\ pc = "opened"
    /\ fixes_recorded' = 0
    /\ pending_gga' = None
    /\ pc' = "read"
    /\ UNCHANGED <<count, port, dump, file, points, ser, msg, point, exit, reported, nRead>>
    /\ UNCHANGED hist

\* Lines 93-107 and 119-120: an empty read, a line without "$", a line
\* pynmea2.parse rejects, a sentence of another type: continue.
ReadSkip ==
    /\ pc = "read"
    /\ nRead < MaxLines
    /\ \E line \in SkipLines : msg' = line
    /\ nRead' = nRead + 1
    /\ prev' = points
    /\ UNCHANGED <<pc, count, port, dump, file, points, ser, fixes_recorded, pending_gga, point, exit, reported>>
    /\ UNCHANGED <<startFile, gga, since>>

\* Lines 93-116: a GGA sentence.
ReadGGA ==
    /\ pc = "read"
    /\ nRead < MaxLines
    /\ \E line \in GGALines :
        /\ msg' = line
        /\ IF GGAPositionRaises(line) \/ (GGAHasPosition(line) /\ GGAValuesRaise(line))
           THEN /\ pc' = "finally"
                /\ exit' = "value_error"
                /\ UNCHANGED pending_gga
           ELSE IF GGAHasPosition(line)
           THEN /\ pending_gga' = Some(GGAExtras(line))
                /\ UNCHANGED <<pc, exit>>
           ELSE UNCHANGED <<pc, exit, pending_gga>>
        /\ IF ClaimPositionGGA(line)
           THEN gga' = line /\ since' = 0
           ELSE UNCHANGED <<gga, since>>
    /\ nRead' = nRead + 1
    /\ prev' = points
    /\ UNCHANGED <<count, port, dump, file, points, ser, fixes_recorded, point, reported, startFile>>

\* Lines 93-149: an RMC sentence, up to the Fix it builds.
ReadRMC ==
    /\ pc = "read"
    /\ nRead < MaxLines
    /\ \E line \in RMCLines :
        /\ msg' = line
        /\ IF ~StatusActive(line)
           THEN UNCHANGED <<pc, exit, point, pending_gga>>
           ELSE IF RMCPositionRaises(line)
           THEN /\ pc' = "finally"
                /\ exit' = "value_error"
                /\ UNCHANGED <<point, pending_gga>>
           ELSE IF ZeroZero(line)
           THEN UNCHANGED <<pc, exit, point, pending_gga>>
           ELSE IF RMCValuesRaise(line)
           THEN /\ pc' = "finally"
                /\ exit' = "value_error"
                /\ UNCHANGED <<point, pending_gga>>
           ELSE /\ point' = MergePending(BuildPoint(line), pending_gga)
                /\ pending_gga' = ConsumePending(pending_gga)
                /\ pc' = "append"
                /\ UNCHANGED exit
        /\ since' = (IF ClaimValidRMC(line) THEN since + 1 ELSE since)
    /\ nRead' = nRead + 1
    /\ prev' = points
    /\ UNCHANGED <<count, port, dump, file, points, ser, fixes_recorded, reported, startFile, gga>>

\* Line 151.
AppendPoint ==
    /\ pc = "append"
    /\ points' = Append(points, point)
    /\ pc' = "save_open"
    /\ UNCHANGED <<count, port, dump, file, ser, fixes_recorded, pending_gga, msg, point, exit, reported, nRead>>
    /\ UNCHANGED hist

\* Line 60: the file is truncated before anything is written.
SaveOpen ==
    /\ pc = "save_open"
    /\ file' = Truncated
    /\ dump' = DumpStart
    /\ pc' = "save_dump"
    /\ UNCHANGED <<count, port, points, ser, fixes_recorded, pending_gga, msg, point, exit, reported, nRead>>
    /\ UNCHANGED hist

\* Line 61, while yaml.dump runs: it writes the text a piece at a time.  The
\* stream's buffer passes the text on to the file at byte boundaries of its
\* own, which can fall on any place of the text, and whenever the file is
\* closed; file is the text written so far, which is what the file holds if
\* the buffer has just been passed on.
SaveWrite ==
    /\ pc = "save_dump"
    /\ dump.k < Len(points)
    /\ dump' = NextCut(points, dump)
    /\ file' = CutFile(points, dump')
    /\ UNCHANGED <<pc, count, port, points, ser, fixes_recorded, pending_gga, msg, point, exit, reported, nRead>>
    /\ UNCHANGED hist

\* Lines 60-61 end: yaml.dump has written the whole text and the with block
\* closes the file.
SaveClose ==
    /\ pc = "save_dump"
    /\ dump.k = Len(points)
    /\ file' = Dumped(points)
    /\ pc' = "count"
    /\ UNCHANGED <<count, port, dump, points, ser, fixes_recorded, pending_gga, msg, point, exit, reported, nRead>>
    /\ UNCHANGED hist

\* Lines 154-158.
CountFix ==
    /\ pc = "count"
    /\ fixes_recorded' = fixes_recorded + 1
    /\ pc' = "check"
    /\ UNCHANGED <<count, port, dump, file, points, ser, pending_gga, msg, point, exit, reported, nRead>>
    /\ UNCHANGED hist

\* Lines 160-162.
CheckCount ==
    /\ pc = "check"
    /\ IF count # 0 /\ fixes_recorded >= count
       THEN pc' = "finally" /\ exit' = "count"
       ELSE pc' = "read" /\ UNCHANGED exit
    /\ UNCHANGED prog
    /\ UNCHANGED hist

\* KeyboardInterrupt is raised between two bytecodes of the main thread,
\* wherever main is.  Inside the try (lines 92-162) it reaches the handler of
\* line 164; before the try, and in the finally clause before ser.close()
\* (line 167), it ends main at once.  Raised inside save_points, it closes
\* the file on its way out of the with block: what yaml.dump has written so
\* far, possibly nothing or all of it, is what the file is left with.  One
\* interrupt is delivered; a second one, during the handler, is not explored.
InTry == pc \in {"read", "append", "save_open", "save_dump", "count", "check"}

\* Lines 95, 99, 102, 107, 116, 120, 124, 130: the line ends its iteration
\* in a `continue`.
EndsInContinue(line) ==
    \/ line \in SkipLines
    \/ /\ line.typ = "GGA"
       /\ ~GGAPositionRaises(line)
       /\ ~(GGAHasPosition(line) /\ GGAValuesRaise(line))
    \/ /\ line.typ = "RMC"
       /\ ~StatusActive(line) \/ (~RMCPositionRaises(line) /\ ZeroZero(line))

\* main is back at the read through a `continue`.  The interpreter looks for
\* interrupts at that jump back to line 93; whether one raised there is
\* still inside the try depends on the build: CPython 3.11 looks the handler
\* up for the instruction before the jump's target, which lies before the
\* try, so that neither the handler of line 164 nor the finally clause runs.
AtContinue == pc = "read" /\ nRead >= 1 /\ EndsInContinue(msg)

\* The places of an iteration, between the return of ser.readline() and
\* line 151, where an interrupt finds main in a state of its own: the line
\* received and nothing done with it yet (lines 94-138 and 111, short of the
\* `continue` that ends the iteration), the Fix built (line 147), the pending
\* dict merged into it and still pending (line 149).
Places == {"received", "built", "merged"}

\* Lines 93-149 and 164: KeyboardInterrupt raised inside an iteration, after
\* the line was read.  (Raised at the `continue` that ends the iteration, or
\* after line 149 has run, it is Interrupt after ReadSkip, ReadGGA or
\* ReadRMC.)
InterruptIteration ==
    /\ pc = "read"
    /\ nRead < MaxLines
    /\ \E line \in SkipLines \cup GGALines \cup RMCLines, at \in Places :
        /\ msg' = line
        /\ IF at = "received"
           THEN UNCHANGED point
           ELSE /\ line.typ = "RMC"
                /\ RMCBuildsFix(line)
                /\ at = "merged" => pending_gga # None
                /\ point' = (IF at = "built" THEN BuildPoint(line)
                             ELSE MergePending(BuildPoint(line), pending_gga))
        /\ IF ClaimPositionGGA(line)
           THEN gga' = line /\ since' = 0
           ELSE /\ gga' = gga
                /\ since' = (IF ClaimValidRMC(line) THEN since + 1 ELSE since)
    /\ nRead' = nRead + 1
    /\ prev' = points
    /\ exit' = "interrupt"
    /\ pc' = "except"
    /\ UNCHANGED <<count, port, dump, file, points, ser, fixes_recorded, pending_gga, reported, startFile>>

\* KeyboardInterrupt raised where main stands between two steps: caught at
\* line 164 inside the try, and ending main at once outside it or, on a
\* build that has it so, at a `continue`.
Interrupt ==
    /\ pc \in {"start", "load", "open", "opened", "finally"} \/ InTry
    /\ exit # "interrupt"
    /\ exit' = "interrupt"
    /\ pc' \in (IF ~InTry THEN {"done"}
                ELSE IF AtContinue THEN {"except", "done"}
                ELSE {"except"})
    /\ UNCHANGED prog
    /\ UNCHANGED hist

\* Line 165.
ReportStopped ==
    /\ pc = "except"
    /\ reported' = Some(fixes_recorded)
    /\ pc' = "finally"
    /\ UNCHANGED <<count, port, dump, file, points, ser, fixes_recorded, pending_gga, msg, point, exit, nRead>>
    /\ UNCHANGED hist

\* Lines 166-167.
CloseSerial ==
    /\ pc = "finally"
    /\ ser' = "closed"
    /\ pc' = "done"
    /\ UNCHANGED <<count, port, dump, file, points, fixes_recorded, pending_gga, msg, point, exit, reported, nRead>>
    /\ UNCHANGED hist

Next ==
    \/ ResolvePort
    \/ LoadExisting
    \/ OpenSerial
    \/ OpenFails
    \/ EnterLoop
    \/ ReadSkip
    \/ ReadGGA
    \/ ReadRMC
    \/ AppendPoint
    \/ SaveOpen
    \/ SaveWrite
    \/ SaveClose
    \/ CountFix
    \/ CheckCount
    \/ Interrupt
    \/ InterruptIteration
    \/ ReportStopped
    \/ CloseSerial

Spec == Init /\ [][Next]_vars

(***************************************************************************)
(* Properties.                                                             *)
(***************************************************************************)

\* The track loaded at startup.
Loaded == load_existing(startFile)

\* An RMC sentence the record loop is to drop: flag not 'A', or latitude and
\* longitude both decode to zero.
ClaimRejectedRMC(m) ==
    /\ m.typ = "RMC"
    /\ \/ m.status # "A"
       \/ (DmValid(m.lat) /\ DmValid(m.lon) /\ Latitude(m) = 0 /\ Longitude(m) = 0)

\* The iteration that read msg is over: the loop is back at the read, or has
\* left the try.
IterationOver == pc \in {"read", "finally", "done"}

\* C1: without an interrupt, once the iteration of an RMC sentence with flag
\* 'A' and latitude/longitude not both zero is over, the in-memory track is
\* the track before the iteration with exactly one Fix (of that sentence)
\* added at the end, and the track file holds that same list.
C1_ValidRMCAppendsOneFix ==
    (ClaimValidRMC(msg) /\ IterationOver /\ exit # "interrupt") =>
        /\ Len(points) = Len(prev) + 1
        /\ SubSeq(points, 1, Len(prev)) = prev
        /\ points[Len(points)].lat = Latitude(msg)
        /\ points[Len(points)].lon = Longitude(msg)
        /\ file = Dumped(points)

\* C2: the first Fix built after a GGA sentence carries that sentence's
\* altitude and satellite count, and every other Fix (a later one with no
\* GGA sentence in between, or one with none since startup) has both absent.
\* A GGA sentence is taken, as in section 4.2, for one whose latitude and
\* longitude fields are both nonempty; the others are ignored by design.
C2_OneShotAltitude ==
    pc = "append" =>
        IF gga # NoMsg /\ since = 1
        THEN /\ Field(point, "altitude_m") = FloatValue(gga.altitude)
             /\ Field(point, "num_sats") = IntValue(gga.num_sats)
        ELSE /\ Field(point, "altitude_m") = None
             /\ Field(point, "num_sats") = None

\* C3: the iteration of an RMC sentence whose flag is not 'A', or whose
\* latitude and longitude both decode to zero, builds no Fix and leaves the
\* in-memory track, the track file, fixes_recorded and pending_gga as they
\* were; it ends back at the read, or in the handler when interrupted.
C3_RejectedRMCChangesNothing ==
    [][(nRead' = nRead + 1 /\ ClaimRejectedRMC(msg')) =>
            /\ pc' = (IF exit' = "interrupt" THEN "except" ELSE "read")
            /\ UNCHANGED <<point, points, file, fixes_recorded, pending_gga>>]_vars

\* A zero/zero RMC sentence with flag 'A' has just been dropped while a GGA
\* dict was pending and a Fix of this run was on file.
C3_Witness ==
    /\ pc = "read"
    /\ ClaimRejectedRMC(msg)
    /\ msg.status = "A"
    /\ pending_gga # None
    /\ fixes_recorded >= 1
    /\ file = Dumped(points)

\* C4: startup never ends on the track file, and the track loaded is the
\* file's list, or empty when the file is absent, empty, unparseable or not
\* a list.
C4_LoadNeverFails ==
    /\ exit # "yaml_error"
    /\ pc = "open" =>
        points = (IF startFile.kind = "list" THEN startFile.pts ELSE <<>>)

\* C5: when an interrupt has stopped the loop, every Fix appended in memory
\* is in the file, the file is a complete list equal to the in-memory track,
\* and the count reported is the number of fixes this run added to the file.
C5_GracefulInterrupt ==
    (pc = "done" /\ exit = "interrupt" /\ ser = "closed") =>
        /\ IF points = Loaded THEN file = startFile ELSE file = Dumped(points)
        /\ reported = Some(Len(points) - Len(Loaded))

\* C6: once this run has begun rewriting the track file, a reader of it gets,
\* at every instant, a nonempty list of fixes that is the track before the
\* current append or the track after it.
C6_NoPartialTrackVisible ==
    (points # Loaded /\ file # startFile) =>
        /\ load_points(file).res = "ok"
        /\ load_points(file).pts \in {prev, points}

\* C7: once the serial device is open, main ends only by an interrupt or by
\* reaching the --count limit.
C7_NoisyInputNeverHalts ==
    (ser # "unopened" /\ pc \in {"finally", "done"}) => exit \in {"interrupt", "count"}

\* C8: main never ends with the serial handle open, and a failed open ends
\* main with no handle, no line read and the track file untouched.
C8_HandleReleased ==
    pc = "done" =>
        /\ ser # "open"
        /\ exit = "open_failed" => (ser = "unopened" /\ nRead = 0 /\ file = startFile)

\* A GGA sentence whose fields are all well-formed numbers.
ClaimWellFormedGGA(m) ==
    /\ m.typ = "GGA"
    /\ DmValid(m.lat) /\ DmValid(m.lon)
    /\ m.altitude # "" => FloatValue(m.altitude) # None
    /\ m.num_sats # "" => IntValue(m.num_sats) # None

\* C9: a (well-formed) GGA sentence whose iteration is not interrupted
\* never builds a Fix or changes the track or its file; when its latitude and longitude fields are both nonempty it
\* overwrites pending_gga with its altitude and satellite count, each absent
\* only if its field is empty; otherwise it leaves pending_gga unchanged.
C9_GGAOverwritesPending ==
    [][(nRead' = nRead + 1 /\ ClaimWellFormedGGA(msg') /\ exit' # "interrupt") =>
            /\ pc' = "read"
            /\ UNCHANGED <<points, file>>
            /\ IF msg'.lat # "" /\ msg'.lon # ""
               THEN pending_gga' = Some([altitude_m |-> FloatValue(msg'.altitude),
                                         num_sats |-> IntValue(msg'.num_sats)])
               ELSE UNCHANGED pending_gga]_vars

\* C10: the Fix of an accepted RMC sentence has speed_knots absent only when
\* the speed field is empty, and otherwise the speed rounded to 3 decimals;
\* likewise course_deg, rounded to 2 decimals.
C10_VelocityFields ==
    pc = "append" =>
        /\ point.speed_knots =
              (IF msg.spd_over_grnd = "" THEN None
               ELSE Some(Round3(FloatField(msg.spd_over_grnd))))
        /\ point.course_deg =
              (IF msg.true_course = "" THEN None
               ELSE Some(Round2(FloatField(msg.true_course))))

====
